---- MODULE Spec2Model ----
(***************************************************************************)
(* Supervised-actor runtime of src/index.ts (createSupervisedActor and its *)
(* twin createSuperVisor) driven by bankAccountHandler.                    *)
(*                                                                         *)
(* Each actor owns an unbounded Queue of ActorMessage envelopes, a Ref     *)
(* holding its state and one forked fiber running actorLoop.  The handle   *)
(* (send / stop / restart / getState) only offers to the queue or reads    *)
(* the Ref.                                                                *)
(*                                                                         *)
(* Semantics of the `effect` library the code relies on:                   *)
(*  - Queue.unbounded: offer always appends and yields true; take removes  *)
(*    the oldest element and suspends the taker while the queue is empty.  *)
(*  - Effect.retry(e, { times: n }) re-runs e after a failure in the error *)
(*    channel, at most n more times; a defect (die) is not retried.        *)
(*  - Effect.gen never resumes the generator after a yielded effect has    *)
(*    failed: the failure ends the whole generated effect, so a try/catch  *)
(*    written around `yield*` is not entered.                              *)
(***************************************************************************)
EXTENDS Integers, Sequences, FiniteSets, TLC

VARIABLES
    queue,      \* queue[a]    : the actor's mailbox (Queue.unbounded), oldest first
    stateRef,   \* stateRef[a] : the BankAccount held by the Ref
    pc,         \* pc[a]       : position of the actorLoop fiber
    cur,        \* cur[a]      : msg / currentState / attempts of the envelope in hand
    inFlight,   \* inFlight[a] : handler invocations started and not yet completed
    sent,       \* sent[a]     : number of envelopes offered so far (ghost)
    acks,       \* acks[a]     : per offer, in call order: the boolean it returned and
                \*               whether the loop had processed a Stop before the call
    processed,  \* processed[a]: what the loop did with each dequeued envelope (ghost)
    errors,     \* errors[a]   : reports written by the catch clause of actorLoop
    lastRead,   \* the value returned by the latest getState call, and whether a
                \* handler invocation was in progress when it was made
    calls       \* handle calls made so far (bounded by MaxCalls)

vars == << queue, stateRef, pc, cur, inFlight, sent, acks, processed, errors,
           lastRead, calls >>

----------------------------------------------------------------------------
(* Bounds of the model *)

MaxCalls == 3

(* Program constants *)

RetryTimes == 3
AliceBalance == 1000
BobBalance == 500

Actors == {"Alice", "Bob"}
Producers == {"p1", "p2"}
Timestamps == {1, 2}

\* The payloads a caller may send to an actor: the demo's message shapes, with
\* a withdrawal Bob cannot afford at first and Alice cannot afford twice.
Messages(a) ==
    { [type |-> "deposit", amount |-> 500],
      [type |-> "withdraw", amount |-> 700] }
    \cup (IF a = "Alice"
          THEN { [type |-> "transfer", to |-> "Bob", amount |-> 300] }
          ELSE { })

NoMsg == [type |-> "none"]
NoRead == [actor |-> "none"]
NoState == [balance |-> 0, transactions |-> << >>]

\* the loop holds no envelope: its locals msg, currentState are dead
Idle == [msg |-> NoMsg, currentState |-> NoState, attempts |-> 0]

initialState(a) ==
    IF a = "Alice" THEN [balance |-> AliceBalance, transactions |-> << >>]
                   ELSE [balance |-> BobBalance, transactions |-> << >>]

----------------------------------------------------------------------------
(* bankAccountHandler: the state transition, a normal (non-failing) result *)

\* A handler whose deposit forgets to record the transaction.
bankAccountHandler_NoRecord(state, message, timestamp) ==
    IF message.type = "deposit"
    THEN [balance |-> state.balance + message.amount,
          transactions |-> state.transactions]
    ELSE IF state.balance < message.amount
         THEN state
         ELSE [balance |-> state.balance - message.amount,
               transactions |-> Append(state.transactions,
                   [type |-> message.type, amount |-> message.amount,
                    timestamp |-> timestamp])]

\* A handler that debits without looking at the balance.
bankAccountHandler_NoFundsCheck(state, message, timestamp) ==
    [balance |-> IF message.type = "deposit"
                 THEN state.balance + message.amount
                 ELSE state.balance - message.amount,
     transactions |-> Append(state.transactions,
         [type |-> message.type, amount |-> message.amount,
          timestamp |-> timestamp])]

bankAccountHandler(state, message, timestamp) ==
    CASE message.type = "deposit" ->
            [balance |-> state.balance + message.amount,
             transactions |-> Append(state.transactions,
                 [type |-> "deposit", amount |-> message.amount,
                  timestamp |-> timestamp])]
      [] message.type = "withdraw" ->
            IF state.balance < message.amount
            THEN state
            ELSE [balance |-> state.balance - message.amount,
                  transactions |-> Append(state.transactions,
                      [type |-> "withdraw", amount |-> message.amount,
                       timestamp |-> timestamp])]
      [] message.type = "transfer" ->
            IF state.balance < message.amount
            THEN state
            ELSE [balance |-> state.balance - message.amount,
                  transactions |-> Append(state.transactions,
                      [type |-> "transfer", amount |-> message.amount,
                       timestamp |-> timestamp])]

----------------------------------------------------------------------------
(* Queue.unbounded *)

QueueOffer_Front(q, e) == [queue |-> << e >> \o q, accepted |-> TRUE]

QueueOffer(q, e) == [queue |-> Append(q, e), accepted |-> TRUE]

\* A take that serves a queued Stop before anything else.
QueueTake_StopFirst(q) ==
    LET S == {i \in 1..Len(q) : q[i]._tag = "Stop"}
        i == IF S = { } THEN 1 ELSE CHOOSE x \in S : \A y \in S : x <= y
    IN  [item |-> q[i], rest |-> SubSeq(q, 1, i - 1) \o SubSeq(q, i + 1, Len(q))]

QueueTake_Lifo(q) == [item |-> q[Len(q)], rest |-> SubSeq(q, 1, Len(q) - 1)]

QueueTake(q) == [item |-> Head(q), rest |-> Tail(q)]

(* Effect.retry(.., { times: 3 }): after a failed attempt, run again? *)
ShouldRetry_OffByOne(attempts) == attempts - 1 <= RetryTimes

ShouldRetry(attempts) == attempts - 1 < RetryTimes

(* Does the try/catch of actorLoop see a failure of a yielded effect? *)
GenCatches == FALSE

----------------------------------------------------------------------------
Init ==
    /\ queue = [a \in Actors |-> << >>]
    /\ stateRef = [a \in Actors |-> initialState(a)]
    /\ pc = [a \in Actors |-> "take"]
    /\ cur = [a \in Actors |-> Idle]
    /\ inFlight = [a \in Actors |-> 0]
    /\ sent = [a \in Actors |-> 0]
    /\ acks = [a \in Actors |-> << >>]
    /\ processed = [a \in Actors |-> << >>]
    /\ errors = [a \in Actors |-> 0]
    /\ lastRead = NoRead
    /\ calls = 0

----------------------------------------------------------------------------
(* The handle *)

\* The loop has dequeued a Stop envelope.
StopProcessed(a) ==
    \E k \in 1..Len(processed[a]) : processed[a][k]._tag = "Stop"

\* Callers are interchangeable: the one that makes the first call is named p1.
FirstCaller(p) == calls = 0 => p = "p1"

\* A mailbox that closes once Stop has been processed.
Offer_ClosedAfterStop(a, p, env) ==
    LET e == [_tag |-> env._tag, payload |-> env.payload,
              from |-> p, seq |-> sent[a] + 1]
        r == IF StopProcessed(a)
             THEN [queue |-> queue[a], accepted |-> FALSE]
             ELSE QueueOffer(queue[a], e)
    IN  /\ calls < MaxCalls
        /\ FirstCaller(p)
        /\ calls' = calls + 1
        /\ queue' = [queue EXCEPT ![a] = r.queue]
        /\ acks' = [acks EXCEPT ![a] =
                        Append(@, [accepted |-> r.accepted,
                                   afterStop |-> StopProcessed(a)])]
        /\ sent' = [sent EXCEPT ![a] = @ + 1]
        /\ UNCHANGED << stateRef, pc, cur, inFlight, processed, errors,
                        lastRead >>

\* Queue.offer(queue, envelope) by caller p.
Enqueue(a, p, env) ==
    LET e == [_tag |-> env._tag, payload |-> env.payload,
              from |-> p, seq |-> sent[a] + 1]
        r == QueueOffer(queue[a], e)
    IN  /\ calls' = calls + 1
        /\ queue' = [queue EXCEPT ![a] = r.queue]
        /\ acks' = [acks EXCEPT ![a] =
                        Append(@, [accepted |-> r.accepted,
                                   afterStop |-> StopProcessed(a)])]
        /\ sent' = [sent EXCEPT ![a] = @ + 1]
        /\ UNCHANGED << stateRef, pc, cur, inFlight, processed, errors,
                        lastRead >>

Offer(a, p, env) ==
    /\ calls < MaxCalls
    /\ FirstCaller(p)
    /\ Enqueue(a, p, env)

send(a, p, message) == Offer(a, p, [_tag |-> "Message", payload |-> message])

stop(a, p) == Offer(a, p, [_tag |-> "Stop", payload |-> NoMsg])

restart(a, p) == Offer(a, p, [_tag |-> "Restart", payload |-> NoMsg])

\* Ref.get(stateRef)
RefGet_InHand(a) == cur[a].currentState

RefGet(a) == stateRef[a]

Read(a) ==
    /\ calls' = calls + 1
    /\ lastRead' = [actor |-> a, value |-> RefGet(a), busy |-> pc[a] = "invoke"]
    /\ UNCHANGED << queue, stateRef, pc, cur, inFlight, sent, acks, processed,
                    errors >>

getState(a) ==
    /\ calls < MaxCalls
    /\ Read(a)

----------------------------------------------------------------------------
(* actorLoop *)

\* The fiber is suspended in Queue.take: the only place it dequeues.
LoopAwaits_AfterStop(a) == pc[a] \in {"take", "stopped"}

LoopAwaits_Eager(a) == pc[a] \in {"take", "invoke"}

LoopAwaits(a) == pc[a] = "take"

\* The value the Restart branch stores: Ref.set(stateRef, initialState).
RestartState_Keep(a) == stateRef[a]

RestartState(a) == initialState(a)

\* The state the handler is applied to: currentState, read by Ref.get once
\* per envelope, before the first attempt.
HandlerInput_Initial(a) == initialState(a)

HandlerInput(a) == cur[a].currentState

\* The value Effect.retry yields when a run of the handler succeeds.
RetryResult_Discard(a, ts) == cur[a].currentState

RetryResult(a, ts) ==
    bankAccountHandler(HandlerInput(a), cur[a].msg.payload, ts)

Done(a, e, outcome, ts) ==
    Append(processed[a],
           [seq |-> e.seq, _tag |-> e._tag, payload |-> e.payload,
            from |-> e.from, outcome |-> outcome, timestamp |-> ts])

\* One pass of the while loop up to the handler call: Queue.take, the Stop
\* and Restart branches, Ref.get and the start of the first handler run.
ActorLoopTake(a) ==
    /\ LoopAwaits(a)
    /\ queue[a] # << >>
    /\ LET t == QueueTake(queue[a])
           msg == t.item
       IN  /\ queue' = [queue EXCEPT ![a] = t.rest]
           /\ CASE msg._tag = "Stop" ->
                    /\ pc' = [pc EXCEPT ![a] = "stopped"]
                    /\ processed' = [processed EXCEPT ![a] = Done(a, msg, "stop", 0)]
                    /\ UNCHANGED << stateRef, cur, inFlight >>
                [] msg._tag = "Restart" ->
                    /\ stateRef' = [stateRef EXCEPT ![a] = RestartState(a)]
                    /\ processed' = [processed EXCEPT ![a] = Done(a, msg, "restart", 0)]
                    /\ UNCHANGED << pc, cur, inFlight >>
                [] msg._tag = "Message" ->
                    /\ cur' = [cur EXCEPT ![a] = [msg |-> msg,
                                                  currentState |-> stateRef[a],
                                                  attempts |-> 1]]
                    /\ pc' = [pc EXCEPT ![a] = "invoke"]
                    /\ inFlight' = [inFlight EXCEPT ![a] = @ + 1]
                    /\ UNCHANGED << stateRef, processed >>
    /\ UNCHANGED << sent, acks, errors, lastRead, calls >>

\* A loop that also credits the recipient of an accepted transfer.
HandlerSucceed_Credit(a, ts) ==
    /\ pc[a] = "invoke"
    /\ LET newState == RetryResult(a, ts)
           m == cur[a].msg.payload
       IN  stateRef' =
             IF m.type = "transfer" /\ newState # cur[a].currentState
             THEN [stateRef EXCEPT ![a] = newState,
                                   ![m.to].balance = @ + m.amount]
             ELSE [stateRef EXCEPT ![a] = newState]
    /\ pc' = [pc EXCEPT ![a] = "take"]
    /\ inFlight' = [inFlight EXCEPT ![a] = @ - 1]
    /\ processed' = [processed EXCEPT ![a] = Done(a, cur[a].msg, "ok", ts)]
    /\ cur' = [cur EXCEPT ![a] = Idle]
    /\ UNCHANGED << queue, sent, acks, errors, lastRead, calls >>

\* The running handler returns a state: Effect.retry yields it and the loop
\* stores it with Ref.set.
HandlerSucceed(a, ts) ==
    /\ pc[a] = "invoke"
    /\ LET newState == RetryResult(a, ts)
       IN  stateRef' = [stateRef EXCEPT ![a] = newState]
    /\ pc' = [pc EXCEPT ![a] = "take"]
    /\ inFlight' = [inFlight EXCEPT ![a] = @ - 1]
    /\ processed' = [processed EXCEPT ![a] = Done(a, cur[a].msg, "ok", ts)]
    /\ cur' = [cur EXCEPT ![a] = Idle]
    /\ UNCHANGED << queue, sent, acks, errors, lastRead, calls >>

\* The running handler fails in the error channel: Effect.retry runs it again
\* or, with the retries used up, fails the loop.
HandlerFail(a) ==
    /\ pc[a] = "invoke"
    /\ IF ShouldRetry(cur[a].attempts)
       THEN /\ cur' = [cur EXCEPT ![a].attempts = @ + 1]
            /\ UNCHANGED << pc, inFlight, processed, errors >>
       ELSE /\ inFlight' = [inFlight EXCEPT ![a] = @ - 1]
            /\ processed' = [processed EXCEPT ![a] =
                                Done(a, cur[a].msg, "exhausted", 0)]
            /\ IF GenCatches
               THEN /\ errors' = [errors EXCEPT ![a] = @ + 1]
                    /\ pc' = [pc EXCEPT ![a] = "ended"]
               ELSE /\ errors' = errors
                    /\ pc' = [pc EXCEPT ![a] = "failed"]
            /\ cur' = [cur EXCEPT ![a] = Idle]
    /\ UNCHANGED << queue, stateRef, sent, acks, lastRead, calls >>

\* The running handler dies with a defect (a throw): not retried.
HandlerDie(a) ==
    /\ pc[a] = "invoke"
    /\ inFlight' = [inFlight EXCEPT ![a] = @ - 1]
    /\ processed' = [processed EXCEPT ![a] =
                        Done(a, cur[a].msg, "defect", 0)]
    /\ IF GenCatches
       THEN /\ errors' = [errors EXCEPT ![a] = @ + 1]
            /\ pc' = [pc EXCEPT ![a] = "ended"]
       ELSE /\ errors' = errors
            /\ pc' = [pc EXCEPT ![a] = "failed"]
    /\ cur' = [cur EXCEPT ![a] = Idle]
    /\ UNCHANGED << queue, stateRef, sent, acks, lastRead, calls >>

----------------------------------------------------------------------------
Next ==
    \/ \E a \in Actors, p \in Producers : \E m \in Messages(a) : send(a, p, m)
    \/ \E a \in Actors, p \in Producers : stop(a, p)
    \/ \E a \in Actors, p \in Producers : restart(a, p)
    \/ \E a \in Actors : getState(a)
    \/ \E a \in Actors : ActorLoopTake(a)
    \/ \E a \in Actors, ts \in Timestamps : HandlerSucceed(a, ts)
    \/ \E a \in Actors : HandlerFail(a)
    \/ \E a \in Actors : HandlerDie(a)

Spec == Init /\ [][Next]_vars

\* The running handler terminates, one way or another.
HandlerEnds(a) ==
    \/ \E ts \in Timestamps : HandlerSucceed(a, ts)
    \/ HandlerFail(a)
    \/ HandlerDie(a)

\* The runtime schedules every forked loop fiber that can run, and every
\* handler invocation terminates.
FairSpec ==
    /\ Spec
    /\ \A a \in Actors : WF_vars(ActorLoopTake(a)) /\ WF_vars(HandlerEnds(a))

----------------------------------------------------------------------------
(* The bank scenario: one caller drives Alice through a fixed list of calls, *)
(* with bankAccountHandler as it is (it never fails).                        *)

DemoScript ==
    << [op |-> "send", message |-> [type |-> "deposit", amount |-> 500]],
       [op |-> "send", message |-> [type |-> "withdraw", amount |-> 200]],
       [op |-> "send", message |-> [type |-> "withdraw", amount |-> 5000]],
       [op |-> "stop"],
       [op |-> "send", message |-> [type |-> "deposit", amount |-> 500]],
       [op |-> "getState"] >>

DemoCall ==
    /\ calls < Len(DemoScript)
    /\ LET c == DemoScript[calls + 1]
       IN  CASE c.op = "send" ->
                  Enqueue("Alice", "p1", [_tag |-> "Message", payload |-> c.message])
             [] c.op = "stop" ->
                  Enqueue("Alice", "p1", [_tag |-> "Stop", payload |-> NoMsg])
             [] c.op = "getState" -> Read("Alice")

DemoNext ==
    \/ DemoCall
    \/ \E a \in Actors : ActorLoopTake(a)
    \/ \E a \in Actors, ts \in Timestamps : HandlerSucceed(a, ts)

SpecDemo == Init /\ [][DemoNext]_vars

----------------------------------------------------------------------------
(* Vocabulary of the properties *)

Running(a) == pc[a] \in {"take", "invoke"}

Outcomes(a, o) == {k \in 1..Len(processed[a]) : processed[a][k].outcome = o}

\* What the loop did with the envelope of the i-th offer to a, if anything yet.
RecordOf(a, i) ==
    IF \E k \in 1..Len(processed[a]) : processed[a][k].seq = i
    THEN processed[a][CHOOSE k \in 1..Len(processed[a]) : processed[a][k].seq = i]
    ELSE [outcome |-> "pending"]

\* Left fold of the handler over the offers i..sent[a], in send order, applying
\* the payloads whose invocation succeeded and skipping all others.
RECURSIVE FoldSent(_, _, _)
FoldSent(a, state, i) ==
    IF i > sent[a]
    THEN state
    ELSE LET r == RecordOf(a, i)
         IN  FoldSent(a,
                      IF r.outcome = "ok"
                      THEN bankAccountHandler(state, r.payload, r.timestamp)
                      ELSE state,
                      i + 1)

\* Left fold of the handler over the records k..Len(log) of a log.
RECURSIVE FoldLog(_, _, _)
FoldLog(state, log, k) ==
    IF k > Len(log)
    THEN state
    ELSE FoldLog(IF log[k].outcome = "ok"
                 THEN bankAccountHandler(state, log[k].payload, log[k].timestamp)
                 ELSE state,
                 log, k + 1)

NoRestartSent(a) ==
    /\ \A k \in 1..Len(processed[a]) : processed[a][k]._tag # "Restart"
    /\ \A j \in 1..Len(queue[a]) : queue[a][j]._tag # "Restart"

AllProcessed(a) == queue[a] = << >> /\ pc[a] # "invoke"

\* Index of the last Restart record of a's log, 0 if there is none.
LastRestart(a) ==
    LET R == {k \in 1..Len(processed[a]) : processed[a][k]._tag = "Restart"}
    IN  IF R = { } THEN 0 ELSE CHOOSE k \in R : \A j \in R : j <= k

----------------------------------------------------------------------------
\* C1: for a freshly created actor that was sent no restart, once every
\* envelope has been processed the state is the left fold of the handler, from
\* initialState and in send order, over exactly the payloads whose invocation
\* succeeded; a payload that failed acts as the identity.
C1_FinalStateIsFold ==
    \A a \in Actors :
        (NoRestartSent(a) /\ AllProcessed(a))
            => stateRef[a] = FoldSent(a, initialState(a), 1)

C1_Witness ==
    \E a \in Actors :
        /\ NoRestartSent(a) /\ AllProcessed(a)
        /\ Cardinality(Outcomes(a, "ok")) = 2
        /\ Cardinality(Outcomes(a, "exhausted")) = 1
        /\ Len(stateRef[a].transactions) = 2

\* C2: when the retries of one payload are exhausted the loop stays Running
\* (it goes back to dequeuing) and the state keeps its value.
C2_LoopSurvivesExhaustion ==
    \A a \in Actors :
        Outcomes(a, "exhausted") # { }
            => (Running(a) /\ stateRef[a] = FoldLog(initialState(a), processed[a],
                                                     LastRestart(a) + 1))

\* C3 as claimed: a call made after the loop processed Stop is rejected
\* (returns false) and its envelope is not in the queue.
C3_RejectedAfterStop ==
    \A a \in Actors : \A i \in 1..Len(acks[a]) :
        acks[a][i].afterStop
            => /\ acks[a][i].accepted = FALSE
               /\ \A j \in 1..Len(queue[a]) : queue[a][j].seq # i

\* C3 amended: a call made after the loop processed Stop is still accepted
\* (returns true) and its envelope is appended to the queue, where it stays.
C3_AcceptedAfterStop ==
    \A a \in Actors : \A i \in 1..Len(acks[a]) :
        acks[a][i].afterStop
            => /\ acks[a][i].accepted = TRUE
               /\ \E j \in 1..Len(queue[a]) : queue[a][j].seq = i

C3_Witness ==
    \E a \in Actors : \E i, j \in 1..Len(acks[a]) :
        /\ i # j
        /\ acks[a][i].afterStop /\ acks[a][j].afterStop
        /\ RecordOf(a, i).outcome = "pending"

\* C4: once the loop has processed Stop the state never changes again, and
\* every later getState returns that frozen value.
C4_FrozenAfterStop ==
    [][\A a \in Actors :
          StopProcessed(a)
              => /\ stateRef'[a] = stateRef[a]
                 /\ (lastRead' # lastRead /\ lastRead'.actor = a)
                        => lastRead'.value = stateRef[a]]_vars

C4_Witness ==
    \E a \in Actors :
        /\ StopProcessed(a)
        /\ stateRef[a] # initialState(a)
        /\ \E j \in 1..Len(queue[a]) : queue[a][j]._tag = "Restart"

\* C5 as claimed: the handler is invoked at most 3 times for one envelope,
\* the first invocation included.
C5_AtMostThreeInvocations ==
    \A a \in Actors : cur[a].attempts <= RetryTimes

\* C5 amended: the handler is invoked at most 4 times for one envelope (the
\* first invocation and 3 retries), and an envelope whose outcome is recorded
\* (its first success included) is not invoked again.
C5_AtMostFourInvocations ==
    \A a \in Actors :
        /\ cur[a].attempts <= RetryTimes + 1
        /\ pc[a] = "invoke"
              => /\ cur[a].attempts >= 1
                 /\ RecordOf(a, cur[a].msg.seq).outcome = "pending"

C5_Witness ==
    \E a \in Actors : pc[a] = "invoke" /\ cur[a].attempts = RetryTimes + 1

\* C6: a failed invocation leaves the state unchanged, and when an
\* invocation succeeds after k failures the value it returns, the handler
\* applied to the state the envelope found, becomes the new state.
C6_SuccessAfterFailures ==
    [][\A a \in Actors :
          /\ (pc[a] = "invoke" /\ cur'[a].attempts > cur[a].attempts)
                => stateRef'[a] = stateRef[a]
          /\ (pc[a] = "invoke" /\ pc'[a] = "take")
                => \E ts \in Timestamps :
                      /\ processed'[a][Len(processed'[a])].timestamp = ts
                      /\ stateRef'[a] =
                            bankAccountHandler(stateRef[a], cur[a].msg.payload, ts)]_vars

C6_Witness ==
    \E a \in Actors :
        /\ pc[a] = "invoke"
        /\ cur[a].attempts = RetryTimes
        /\ stateRef[a] = cur[a].currentState
        /\ stateRef[a] # initialState(a)
        /\ cur[a].msg.payload.type = "deposit"

\* C7: every payload whose retries were exhausted produced exactly one report
\* of the loop's catch clause, and no other payload produced any.
C7_OneReportPerExhaustion ==
    \A a \in Actors : errors[a] = Cardinality(Outcomes(a, "exhausted"))

\* C8: processing a Restart sets the state to exactly initialState, whatever
\* was applied before, and the payloads processed after it are applied
\* starting from initialState.
C8_RestartResets ==
    \A a \in Actors :
        stateRef[a] = FoldLog(initialState(a), processed[a], LastRestart(a) + 1)

C8_Witness ==
    \E a \in Actors :
        /\ Len(processed[a]) = 3
        /\ processed[a][1].outcome = "ok"
        /\ processed[a][1].payload.type = "deposit"
        /\ processed[a][2]._tag = "Restart"
        /\ processed[a][3].outcome = "ok"
        /\ Len(stateRef[a].transactions) = 1

\* C9: envelopes are processed in enqueue order: the k-th envelope the loop
\* handles is the k-th one offered, whoever offered it, and the queue holds
\* the later ones in the order of their offers.
C9_Fifo ==
    \A a \in Actors :
        LET n == Len(processed[a])
            h == IF pc[a] = "invoke" THEN 1 ELSE 0
        IN  /\ \A k \in 1..n : processed[a][k].seq = k
            /\ pc[a] = "invoke" => cur[a].msg.seq = n + 1
            /\ \A j \in 1..Len(queue[a]) : queue[a][j].seq = n + h + j

C9_Witness ==
    \E a \in Actors :
        /\ Len(processed[a]) = 2
        /\ processed[a][1].from # processed[a][2].from
        /\ processed[a][1].payload # processed[a][2].payload
        /\ queue[a] # << >>

\* C10: at most one handler invocation is in flight per actor, and the loop
\* dequeues only when none is.
C10_OneInFlight ==
    [][\A a \in Actors :
          /\ inFlight'[a] <= 1
          /\ Len(queue'[a]) < Len(queue[a]) => inFlight[a] = 0]_vars

C10_Witness ==
    \E a \in Actors :
        /\ inFlight[a] = 1
        /\ Len(queue[a]) = 2
        /\ queue[a][1].from # queue[a][2].from

----------------------------------------------------------------------------
\* The state after the first k envelopes the loop has finished with: a
\* Restart gives initialState, a succeeded payload the handler's value, any
\* other envelope leaves the state as it was.
RECURSIVE StateAfter(_, _)
StateAfter(a, k) ==
    IF k = 0
    THEN initialState(a)
    ELSE LET r == processed[a][k]
         IN  IF r._tag = "Restart"
             THEN initialState(a)
             ELSE IF r.outcome = "ok"
                  THEN bankAccountHandler(StateAfter(a, k - 1), r.payload, r.timestamp)
                  ELSE StateAfter(a, k - 1)

\* C11: a getState call, whenever it is made, returns the state after some
\* prefix of the processed envelopes (initialState, the value of a completed
\* successful handler run, or the initialState written by a Restart), never
\* the value of a failed or unfinished attempt.
C11_ReadsArePrefixStates ==
    lastRead # NoRead
        => \E k \in 0..Len(processed[lastRead.actor]) :
              lastRead.value = StateAfter(lastRead.actor, k)

C11_Witness ==
    /\ lastRead # NoRead
    /\ lastRead.busy
    /\ lastRead.value # initialState(lastRead.actor)
    /\ pc[lastRead.actor] = "invoke"
    /\ cur[lastRead.actor].attempts > 1
    /\ lastRead.value = stateRef[lastRead.actor]

\* C12: Stop is not prioritized: when the loop has processed a Stop, every
\* envelope offered before it has already been processed, in its turn, and the
\* state is the one those envelopes produced; the Stop is the last envelope the
\* loop handles.
C12_StopInTurn ==
    \A a \in Actors : \A k \in 1..Len(processed[a]) :
        processed[a][k]._tag = "Stop"
            => /\ k = Len(processed[a])
               /\ pc[a] = "stopped"
               /\ \A i \in 1..(processed[a][k].seq - 1) :
                      \E j \in 1..(k - 1) : processed[a][j].seq = i
               /\ stateRef[a] = StateAfter(a, k - 1)

C12_Witness ==
    \E a \in Actors :
        /\ Len(processed[a]) = 3
        /\ processed[a][1].outcome = "ok"
        /\ processed[a][2]._tag = "Restart"
        /\ processed[a][3]._tag = "Stop"
        /\ processed[a][1].payload.type = "deposit"

\* The step appended one envelope of the given variant at the tail of a's
\* mailbox and touched no other mailbox, no state cell and no loop.
AppendedOnly(a, tag, payload) ==
    LET n == Len(queue[a])
    IN  /\ Len(queue'[a]) = n + 1
        /\ SubSeq(queue'[a], 1, n) = queue[a]
        /\ queue'[a][n + 1]._tag = tag
        /\ queue'[a][n + 1].payload = payload
        /\ \A b \in Actors \ {a} : queue'[b] = queue[b]
        /\ stateRef' = stateRef
        /\ pc' = pc

\* The step is one of a's own loop: it stores a handler's value or takes a
\* Restart from the head of the mailbox.
LoopWrite(a) ==
    \/ pc[a] = "invoke" /\ pc'[a] = "take"
    \/ /\ pc[a] = "take" /\ queue[a] # << >>
       /\ Head(queue[a])._tag = "Restart" /\ queue'[a] = Tail(queue[a])

\* C13: send, stop and restart append exactly one envelope of their variant
\* at the tail of the mailbox and change neither the state cell nor the loop's
\* status; getState changes neither mailbox nor state cell; the state cell is
\* written only by steps of the actor's own loop.
C13_HandleFrame ==
    [][IF calls' = calls
       THEN \A a \in Actors : stateRef'[a] # stateRef[a] => LoopWrite(a)
       ELSE \A a \in Actors :
              /\ sent'[a] # sent[a]
                    => \A p \in Producers :
                          /\ \A m \in Messages(a) :
                                send(a, p, m) => AppendedOnly(a, "Message", m)
                          /\ stop(a, p) => AppendedOnly(a, "Stop", NoMsg)
                          /\ restart(a, p) => AppendedOnly(a, "Restart", NoMsg)
              /\ getState(a) => (queue' = queue /\ stateRef' = stateRef /\ pc' = pc)
              /\ stateRef'[a] = stateRef[a]]_vars

C13_Witness ==
    \E a \in Actors :
        /\ Len(queue[a]) = 2
        /\ queue[a][1]._tag = "Restart"
        /\ queue[a][2]._tag = "Stop"
        /\ queue[a][1].from # queue[a][2].from
        /\ lastRead # NoRead /\ lastRead.actor = a
        /\ stateRef[a] = initialState(a) /\ pc[a] = "take"

\* C14: in the bank scenario Alice's balance goes 1000, 1500, 1300 and stays
\* 1300 through the oversized withdrawal, which is a normal handler result
\* (one run, no failure, no report, no new transaction); the send made after
\* stop is never applied, and a getState made once Stop is processed returns
\* balance 1300.
C14_BankScenario ==
    [][LET k == Len(processed'["Alice"])
           st == stateRef'["Alice"]
       IN  /\ st.balance = (CASE k = 0 -> 1000 [] k = 1 -> 1500 [] k >= 2 -> 1300)
           /\ Len(st.transactions) = (IF k >= 2 THEN 2 ELSE k)
           /\ \A j \in 1..k : /\ processed'["Alice"][j].outcome \in {"ok", "stop"}
                               /\ processed'["Alice"][j].seq = j
           /\ k <= 4
           /\ cur'["Alice"].attempts <= 1
           /\ errors'["Alice"] = 0
           /\ pc'["Alice"] \in {"take", "invoke", "stopped"}
           /\ (StopProcessed("Alice") /\ lastRead' # lastRead)
                 => lastRead'.value.balance = 1300]_vars

C14_Witness ==
    /\ calls = Len(DemoScript)
    /\ pc["Alice"] = "stopped"
    /\ Len(processed["Alice"]) = 4
    /\ Len(queue["Alice"]) = 1 /\ queue["Alice"][1].seq = 5
    /\ stateRef["Alice"].balance = 1300
    /\ lastRead # NoRead /\ lastRead.value.balance = 1300

\* C15: a withdraw or transfer whose amount exceeds the current balance
\* returns the state unchanged (balance and history) as a normal result, and
\* the balance of every actor is non-negative in every reachable state.
C15_FundsValidated ==
    \A a \in Actors :
        /\ stateRef[a].balance >= 0
        /\ \A m \in Messages(a), ts \in Timestamps :
              (m.type \in {"withdraw", "transfer"} /\ m.amount > stateRef[a].balance)
                  => bankAccountHandler(stateRef[a], m, ts) = stateRef[a]
        /\ \A k \in 1..Len(processed[a]) :
              LET r == processed[a][k]
                  before == StateAfter(a, k - 1)
              IN  (r.outcome = "ok" /\ r.payload.type \in {"withdraw", "transfer"}
                     /\ r.payload.amount > before.balance)
                      => StateAfter(a, k) = before

C15_Witness ==
    \E a \in Actors :
        /\ Len(processed[a]) = 3
        /\ processed[a][3].outcome = "ok"
        /\ processed[a][3].payload.type = "transfer"
        /\ processed[a][3].payload.amount > StateAfter(a, 2).balance
        /\ stateRef[a] = StateAfter(a, 2)
        /\ Len(stateRef[a].transactions) = 2

\* C16: Stopped is terminal: once the loop has processed Stop it stays
\* stopped, it dequeues nothing any more (the mailbox only grows at its tail
\* and no further envelope is recorded as processed), and a restart offered
\* afterwards neither resets the state nor revives the loop.
C16_StoppedIsTerminal ==
    [][\A a \in Actors :
          StopProcessed(a)
              => /\ pc[a] = "stopped" /\ pc'[a] = "stopped"
                 /\ Len(queue'[a]) >= Len(queue[a])
                 /\ SubSeq(queue'[a], 1, Len(queue[a])) = queue[a]
                 /\ processed'[a] = processed[a]
                 /\ (queue[a] # << >> /\ Head(queue[a])._tag = "Restart")
                        => (stateRef'[a] = stateRef[a] /\ inFlight'[a] = 0)]_vars

C16_Witness ==
    \E a \in Actors :
        /\ pc[a] = "stopped"
        /\ Len(acks[a]) = 3 /\ acks[a][3].afterStop
        /\ Len(queue[a]) = 1 /\ queue[a][1]._tag = "Restart"
        /\ stateRef[a].balance # initialState(a).balance

StopQueued(a) == \E j \in 1..Len(queue[a]) : queue[a][j]._tag = "Stop"

\* C17: if a Stop is queued while the loop is Running, and handler
\* invocations terminate, the loop eventually processes the envelopes ahead of
\* the Stop and then the Stop, and stops dequeuing.
C17_StopEventuallyProcessed ==
    \A a \in Actors : (StopQueued(a) /\ Running(a)) ~> StopProcessed(a)

\* The demo's aliceTotal / bobTotal: the starting sum plus the deposits minus
\* every other recorded amount.
RECURSIVE LedgerTotal(_, _, _)
LedgerTotal(sum, txs, i) ==
    IF i > Len(txs)
    THEN sum
    ELSE LedgerTotal(IF txs[i].type = "deposit"
                     THEN sum + txs[i].amount
                     ELSE sum - txs[i].amount,
                     txs, i + 1)

\* The handler accepts the operation: a deposit, or a debit the balance covers.
Accepted(state, message) ==
    message.type = "deposit" \/ message.amount <= state.balance

\* C18: the balance always equals the construction-time balance plus the
\* recorded deposits minus the recorded withdrawals and transfers; an accepted
\* operation appends exactly one record (its type and amount), a rejected one
\* none, and a Restart resets balance and history together.
C18_LedgerConsistent ==
    \A a \in Actors :
        /\ stateRef[a].balance =
              LedgerTotal(initialState(a).balance, stateRef[a].transactions, 1)
        /\ \A k \in 1..Len(processed[a]) :
              LET r == processed[a][k]
                  before == StateAfter(a, k - 1)
                  after == StateAfter(a, k)
                  n == Len(before.transactions)
              IN  r.outcome = "ok"
                    => IF Accepted(before, r.payload)
                       THEN /\ Len(after.transactions) = n + 1
                            /\ SubSeq(after.transactions, 1, n) = before.transactions
                            /\ after.transactions[n + 1].type = r.payload.type
                            /\ after.transactions[n + 1].amount = r.payload.amount
                       ELSE after = before
        /\ (processed[a] # << >>
              /\ processed[a][Len(processed[a])]._tag = "Restart")
                => (stateRef[a].balance = initialState(a).balance
                      /\ stateRef[a].transactions = << >>)

C18_Witness ==
    \E a \in Actors :
        /\ Cardinality(Outcomes(a, "ok")) = 3
        /\ Len(stateRef[a].transactions) = 2
        /\ stateRef[a].transactions[2].type = "transfer"
        /\ stateRef[a].balance = 0

\* The demo's "Total money in system".
TotalMoney == stateRef["Alice"].balance + stateRef["Bob"].balance

\* The step belongs to a's loop.
LoopStep(a) ==
    \/ pc'[a] # pc[a]
    \/ cur'[a] # cur[a]
    \/ processed'[a] # processed[a]
    \/ Len(queue'[a]) < Len(queue[a])

\* C19: a step of one actor's loop changes no other actor's state cell,
\* mailbox or loop; an accepted transfer of amount x debits the sender by x
\* and credits nobody, so the total of the balances drops by x.
C19_ActorsIsolated ==
    [][\A a \in Actors :
          /\ LoopStep(a)
                => \A b \in Actors \ {a} :
                      /\ stateRef'[b] = stateRef[b]
                      /\ queue'[b] = queue[b]
                      /\ pc'[b] = pc[b] /\ cur'[b] = cur[b]
                      /\ processed'[b] = processed[b]
          /\ (pc[a] = "invoke" /\ pc'[a] = "take"
                /\ cur[a].msg.payload.type = "transfer"
                /\ cur[a].msg.payload.amount <= stateRef[a].balance)
                => /\ stateRef'[a].balance =
                         stateRef[a].balance - cur[a].msg.payload.amount
                   /\ TotalMoney' = TotalMoney - cur[a].msg.payload.amount]_vars

C19_Witness ==
    /\ Len(stateRef["Alice"].transactions) = 1
    /\ stateRef["Alice"].transactions[1].type = "transfer"
    /\ stateRef["Alice"].balance = AliceBalance - 300
    /\ stateRef["Bob"] = initialState("Bob")
    /\ Len(queue["Bob"]) = 1
    /\ TotalMoney = AliceBalance + BobBalance - 300

====
